---- MODULE Spec2Model ----
(***************************************************************************)
(* A model of foxel: the photon raymarcher (src/src/world.rs), the pixel   *)
(* accumulator Screen (src/src/renderer.rs) and the tiled sampler of       *)
(* src/src/main.rs.                                                        *)
(*                                                                         *)
(* The program computes in f32.  An f32 value is modelled exactly, as a    *)
(* pair <<m, e>> standing for m * 2^e with m = 0 or 2^23 <= |m| < 2^24,    *)
(* and every arithmetic operator below rounds to nearest, ties to even,    *)
(* as IEEE 754 binary32 does.  Infinities, NaN, subnormals and the sign    *)
(* of zero are not represented: no value of the model comes near them.     *)
(***************************************************************************)
EXTENDS Integers, Sequences, FiniteSets, TLC

(***************************************************************************)
(* f32 arithmetic                                                          *)
(***************************************************************************)
Pow2Tab == [k \in 0..30 |-> 2^k]

Pow2(k) == Pow2Tab[k]

RECURSIVE BitLenUp(_, _)
BitLenUp(n, k) == IF k >= 31 THEN 31 ELSE IF n < Pow2(k) THEN k ELSE BitLenUp(n, k + 1)

RECURSIVE BitLenDown(_, _)
BitLenDown(n, k) == IF n >= Pow2(k - 1) THEN k ELSE BitLenDown(n, k - 1)

\* the number of binary digits of n >= 1
BitLen(n) == IF n >= Pow2(23) THEN BitLenUp(n, 24) ELSE BitLenDown(n, 23)

FZero == <<0, 0>>

One == <<8388608, -23>>

Sgn(n) == IF n > 0 THEN 1 ELSE IF n < 0 THEN -1 ELSE 0

Abs(n) == IF n < 0 THEN -n ELSE n

\* n with its lowest bit set when bits were lost below it (the sticky bit)
Jam(n, sticky) == IF sticky /\ n % 2 = 0 THEN n + 1 ELSE n

\* q, or q + 1 where the remainder r rounds up (ties to even)
Nearest(q, r, half) == IF r > half \/ (r = half /\ q % 2 = 1) THEN q + 1 ELSE q

\* a rounded significand that reached 2^24 moves to the next exponent
Carry(sgn, q, E) == IF q = Pow2(24) THEN <<sgn * Pow2(23), E + 1>> ELSE <<sgn * q, E>>

\* FRound for M of L binary digits
RoundDigits(sgn, M, E, L) ==
  IF L <= 24
  THEN <<sgn * M * Pow2(24 - L), E - (24 - L)>>
  ELSE Carry(sgn, Nearest(M \div Pow2(L - 24), M % Pow2(L - 24), Pow2(L - 25)), E + (L - 24))

\* the f32 nearest to sgn * M * 2^E (ties to even), M >= 1
FRound(sgn, M, E) == RoundDigits(sgn, M, E, BitLen(M))

\* an integer as f32 (`n as f32`)
FromInt(n) == IF n = 0 THEN FZero ELSE FRound(Sgn(n), Abs(n), 0)

FNeg(a) == <<-a[1], a[2]>>

FAbs(a) == <<Abs(a[1]), a[2]>>

\* B0 shifted right by d binary digits, with the sticky bit
Shifted(B0, d) == IF d >= 27 THEN 1 ELSE Jam(B0 \div Pow2(d), B0 % Pow2(d) # 0)

\* the f32 nearest to S * 2^E, for the exact sum S
RoundSum(S, E) == IF S = 0 THEN FZero ELSE FRound(Sgn(S), Abs(S), E)

\* x + y for x of the larger exponent: three guard bits and the sticky bit
AddAligned(x, y) ==
  RoundSum(x[1] * 8 + Sgn(y[1]) * Shifted(Abs(y[1]) * 8, x[2] - y[2]), x[2] - 3)

FAdd(a, b) ==
  IF a[1] = 0 THEN b
  ELSE IF b[1] = 0 THEN a
  ELSE IF a[2] >= b[2] THEN AddAligned(a, b)
  ELSE AddAligned(b, a)

FSub(a, b) == FAdd(a, FNeg(b))

\* the 48-bit product P1 * 2^24 + P0 cut to its upper 29 bits and the sticky bit
Upper(P1, P0) == Jam(P1 * 32 + P0 \div Pow2(19), P0 % Pow2(19) # 0)

\* hi * 2^24 + low, low below 2^25, as upper and lower 24 bits
Halves(hi, low) == Upper(hi + low \div Pow2(24), low % Pow2(24))

\* hh * 2^24 + mid * 2^12 + ll
Partial(hh, mid, ll) == Halves(hh + mid \div 4096, (mid % 4096) * 4096 + ll)

\* (h1 * 2^12 + l1) * (h2 * 2^12 + l2), by 12-bit limbs
Product(h1, l1, h2, l2) == Partial(h1 * h2, h1 * l2 + l1 * h2, l1 * l2)

FMul(a, b) ==
  IF a[1] = 0 \/ b[1] = 0 THEN FZero
  ELSE FRound(Sgn(a[1]) * Sgn(b[1]),
              Product(Abs(a[1]) \div 4096, Abs(a[1]) % 4096,
                      Abs(b[1]) \div 4096, Abs(b[1]) % 4096),
              a[2] + b[2] + 19)

\* long division, seven quotient bits at a time: <<quotient, remainder>>
RECURSIVE DivSteps(_, _, _, _)
DivSteps(q, r, mb, n) ==
  IF n = 0 THEN <<q, r>>
  ELSE DivSteps(q * 128 + (r * 128) \div mb, (r * 128) % mb, mb, n - 1)

\* a quotient or root with the sticky bit of its remainder
JamRemainder(qr) == Jam(qr[1], qr[2] # 0)

\* b # 0
FDiv(a, b) ==
  IF a[1] = 0 THEN FZero
  ELSE FRound(Sgn(a[1]) * Sgn(b[1]),
              JamRemainder(DivSteps(Abs(a[1]) \div Abs(b[1]), Abs(a[1]) % Abs(b[1]),
                                    Abs(b[1]), 4)),
              a[2] - b[2] - 28)

\* the square root of m * 4^pairs, digit by digit: <<root, remainder>>
RECURSIVE SqrtSteps(_, _, _, _, _)
SqrtSteps(root, rem, m, k, zeros) ==
  IF k = 0 /\ zeros = 0 THEN <<root, rem>>
  ELSE LET pair  == IF k > 0 THEN (m \div Pow2(2 * (k - 1))) % 4 ELSE 0
           rem2  == rem * 4 + pair
           trial == root * 4 + 1
           k2    == IF k > 0 THEN k - 1 ELSE 0
           z2    == IF k > 0 THEN zeros ELSE zeros - 1
       IN  IF rem2 >= trial
           THEN SqrtSteps(root * 2 + 1, rem2 - trial, m, k2, z2)
           ELSE SqrtSteps(root * 2, rem2, m, k2, z2)

\* the square root of m * 2^e, e even
SqrtEven(m, e) == FRound(1, JamRemainder(SqrtSteps(0, 0, m, 13, 14)), (e - 28) \div 2)

\* a >= 0
FSqrt(a) ==
  IF a[1] = 0 THEN FZero
  ELSE IF a[2] % 2 # 0 THEN SqrtEven(a[1] * 2, a[2] - 1)
  ELSE SqrtEven(a[1], a[2])

\* a < b for a and b of the sign s
LtSameSign(a, b, s) ==
  IF s = 0 THEN FALSE
  ELSE IF s = 1 THEN a[2] < b[2] \/ (a[2] = b[2] /\ a[1] < b[1])
  ELSE a[2] > b[2] \/ (a[2] = b[2] /\ a[1] < b[1])

FLt(a, b) ==
  IF Sgn(a[1]) # Sgn(b[1]) THEN Sgn(a[1]) < Sgn(b[1]) ELSE LtSameSign(a, b, Sgn(a[1]))

FGt(a, b) == FLt(b, a)

\* f32::round as an integer: to the nearest integer, halves away from zero
FRoundInt(a) ==
  IF a[1] = 0 \/ a[2] < -24 THEN 0
  ELSE IF a[2] >= 0 THEN a[1] * Pow2(a[2])
  ELSE LET d == -a[2]
           q == Abs(a[1]) \div Pow2(d)
           r == Abs(a[1]) % Pow2(d)
       IN  Sgn(a[1]) * (IF r >= Pow2(d - 1) THEN q + 1 ELSE q)

\* `as usize` of a float that holds the integer k: a negative value gives 0
ToUsize(k) == IF k < 0 THEN 0 ELSE k

\* a float cast to an unsigned integer type of maximum max: truncates toward
\* zero and saturates (a negative value gives 0)
FToUnsigned(a, max) ==
  IF a[1] <= 0 \/ a[2] < -24 THEN 0
  ELSE IF a[2] >= 8 THEN max
  ELSE LET v == IF a[2] >= 0 THEN a[1] * Pow2(a[2]) ELSE a[1] \div Pow2(-a[2])
       IN  IF v > max THEN max ELSE v

\* the decimal literal n/d, for n and d that f32 holds exactly
Dec(n, d) == FDiv(FromInt(n), FromInt(d))

(***************************************************************************)
(* Bounds of the model                                                     *)
(***************************************************************************)
\* screen_width() and screen_height() of the window, in pixels
Width == 3

Height == 2

\* main.rs: the window is TilesX by TilesY chunks of CHUNK_SIZE by CHUNK_SIZE
\* pixels (CHUNK_SIZE is 64 in the source), each task takes N_SAMPLES samples
\* (100000 in the source), and the generators start from one of Seeds states
TilesX == 2

TilesY == 1

CHUNK_SIZE == 2

N_SAMPLES == 2

Seeds == 2

\* the intersections handed to one blend_rays call, and to all calls
MaxBatch == 2

MaxRays == 4

VARIABLES
  samp_buf,    \* Screen.samp_buf: pixel -> sample count (f32)
  image,       \* Screen.image: pixel -> <<r, g, b, a>> bytes
  rays_hit,    \* the count blend_rays prints as "Rays blended"
  last_rays,   \* the intersections of the latest blend_rays call
  blended,     \* pixel -> the wavelengths blended into it, in order
  n_rays,      \* intersections handed to blend_rays so far
  photon0,     \* the photon World::raymarch was called with
  ray,         \* raymarch: the loop's photon and index, and what it returned
  unchecked,   \* the same loop run on without the distance check, from the
               \* iteration where raymarch left by it
  phase,       \* main.rs: the statement of the frame loop that is running
  seed,        \* the state the task-local generators of this frame start from
  color_buf,   \* array index -> Vector4<f32>
  frame_samp,  \* samp_buf of main.rs: array index -> f32
  frame_image, \* image of main.rs: pixel -> bytes
  finished,    \* the tasks of the running parallel loop that have ended
  sampled,     \* task -> the samples it has taken in this frame
  copy_at,     \* <<chunk, element>> the copy loop is at
  touched,     \* array index -> the tasks that accessed it in this frame
  targets,     \* the pixels set_pixel was called for in this frame
  n_written,   \* the set_pixel calls of this frame
  panicked     \* an unwrap of None, or set_pixel outside the image

screen_vars == <<samp_buf, image, rays_hit, last_rays, blended, n_rays>>

ray_vars == <<photon0, ray, unchecked>>

frame_vars ==
  <<phase, seed, color_buf, frame_samp, frame_image, finished, sampled,
    copy_at, touched, targets, n_written, panicked>>

vars == <<screen_vars, ray_vars, frame_vars>>

(***************************************************************************)
(* renderer.rs: Photon::wavelength_to_rgb                                  *)
(***************************************************************************)
\* x.powf(0.8) of libm, tabulated for the channel values the wavelengths of
\* the model produce (0, 0.5 and 1)
PowfGamma(x) ==
  CASE x = FZero -> FZero
    [] x = One -> One
    [] x = <<8388608, -24>> -> <<9635980, -24>>

\* lo <= w < hi
InRange(w, lo, hi) == ~FLt(w, FromInt(lo)) /\ FLt(w, FromInt(hi))

\* a - b of two integer literals
Span(a, b) == FSub(FromInt(a), FromInt(b))

\* 0.3 + 0.7 * num / den
Attenuation(num, den) == FAdd(Dec(3, 10), FDiv(FMul(Dec(7, 10), num), den))

\* the branch of 380.0..440.0
Violet(w, attenuation) ==
  <<FMul(FDiv(FNeg(FSub(w, FromInt(440))), Span(440, 380)), attenuation),
    FZero,
    FMul(One, attenuation)>>

\* the if-else chain that sets r, g and b
Channels(w) ==
  IF InRange(w, 380, 440)
  THEN Violet(w, Attenuation(FSub(w, FromInt(380)), Span(440, 380)))
  ELSE IF InRange(w, 440, 490)
  THEN <<FZero, FDiv(FSub(w, FromInt(440)), Span(490, 440)), One>>
  ELSE IF InRange(w, 490, 510)
  THEN <<FZero, One, FDiv(FNeg(FSub(w, FromInt(510))), Span(510, 490))>>
  ELSE IF InRange(w, 510, 580)
  THEN <<FDiv(FSub(w, FromInt(510)), Span(580, 510)), One, FZero>>
  ELSE IF InRange(w, 580, 645)
  THEN <<One, FDiv(FNeg(FSub(w, FromInt(645))), Span(645, 580)), FZero>>
  ELSE IF ~FLt(w, FromInt(645)) /\ ~FGt(w, FromInt(780))
  THEN <<FMul(One, Attenuation(FSub(FromInt(780), w), Span(780, 645))), FZero, FZero>>
  ELSE <<FZero, FZero, FZero>>

\* Vector3::new(r, g, b).map(|x| x.powf(gamma))
Gamma(rgb) == <<PowfGamma(rgb[1]), PowfGamma(rgb[2]), PowfGamma(rgb[3])>>

wavelength_to_rgb(wavelength) == Gamma(Channels(wavelength))

(***************************************************************************)
(* macroquad Image, as renderer.rs uses it: four bytes a pixel             *)
(***************************************************************************)
\* Color -> [u8; 4] of set_pixel: each channel is (c * 255.) as u8
ColorToBytes(col) ==
  [k \in 1..4 |-> FToUnsigned(FMul(col[k], FromInt(255)), 255)]

\* [u8; 4] -> Color of get_pixel: each channel is byte as f32 / 255.
BytesToColor(bytes) ==
  [k \in 1..4 |-> FDiv(FromInt(bytes[k]), FromInt(255))]

BLACK == <<FZero, FZero, FZero, One>>

(***************************************************************************)
(* renderer.rs: Screen                                                     *)
(***************************************************************************)
Pixels == (0..(Width - 1)) \X (0..(Height - 1))

\* (pos * (size - 1) as f32).round() as usize
PixelIndex(pos, size) == ToUsize(FRoundInt(FMul(pos, FromInt(size - 1))))

\* the bounds check of blend_rays: FALSE where the sample is discarded
InBounds(x, y) == ~(x >= Width \/ y >= Height)

\* the filter of blend_rays
IsHit(ins) == ins.intersection # 0

\* let mix = 1.0 / *mix_fac, read after the increment instead of before it
MixOfIncremented(mix_fac) == FDiv(One, FAdd(mix_fac, One))

\* let mix = 1.0 / *mix_fac
MixOf(mix_fac) == FDiv(One, mix_fac)

\* col.r = mix * new_col.x + (1.0 - mix) * col.r, and g and b; col.a = 1.0
BlendColor(col, new_col, mix) ==
  [k \in 1..4 |->
     IF k = 4 THEN One
     ELSE FAdd(FMul(mix, new_col[k]), FMul(FSub(One, mix), col[k]))]

\* *mix_fac += 1.0 that adds nothing
NextMixFacStuck(mix_fac) == mix_fac

\* *mix_fac += 1.0
NextMixFac(mix_fac) == FAdd(mix_fac, One)

\* what blend_rays does to one pixel for one hit: get_pixel, the blend,
\* set_pixel and the increment; <<bytes, mix_fac>> before and after
BlendPixel(bytes, mix_fac, wavelength) ==
  <<ColorToBytes(BlendColor(BytesToColor(bytes), wavelength_to_rgb(wavelength),
                            MixOf(mix_fac))),
    NextMixFac(mix_fac)>>

\* S with the pixel p set to r, the result of BlendPixel
Blended(S, p, wavelength, r) ==
  [samp    |-> [S.samp EXCEPT ![p] = r[2]],
   image   |-> [S.image EXCEPT ![p] = r[1]],
   hits    |-> S.hits + 1,
   blended |-> [S.blended EXCEPT ![p] = Append(@, wavelength)]]

\* the body of the loop of blend_rays from the bounds check on
BlendAt(S, ins, x, y) ==
  IF ~InBounds(x, y) THEN S
  ELSE Blended(S, <<x, y>>, ins.photon.wavelength,
               BlendPixel(S.image[<<x, y>>], S.samp[<<x, y>>], ins.photon.wavelength))

\* the body of the loop of blend_rays for one intersection that passed the
\* filter; S is [samp, image, hits, blended]
BlendOne(S, ins) ==
  BlendAt(S, ins, PixelIndex(ins.pos[1], Width), PixelIndex(ins.pos[2], Height))

RECURSIVE BlendFrom(_, _, _)
BlendFrom(S, rays, k) ==
  IF k > Len(rays) THEN S
  ELSE BlendFrom(IF IsHit(rays[k]) THEN BlendOne(S, rays[k]) ELSE S, rays, k + 1)

\* an Intersection, as far as blend_rays reads it
Ins(flag, x, y, w) ==
  [intersection |-> flag, pos |-> <<x, y>>, photon |-> [wavelength |-> FromInt(w)]]

\* the intersections of the model: two hits of different wavelengths on the
\* pixel (0, 0), a hit on another pixel, a hit left of the grid (x < 0), a
\* hit below it (y beyond the last row), and a miss
Intersections ==
  {Ins(1, FZero, FZero, 580), Ins(1, FZero, FZero, 465),
   Ins(1, Dec(1, 2), One, 580),
   Ins(1, FNeg(Dec(1, 2)), FZero, 580),
   Ins(1, FZero, Dec(3, 2), 580),
   Ins(0, FZero, FZero, 580)}

RECURSIVE SeqsOf(_, _)
SeqsOf(S, n) ==
  IF n = 0 THEN {<<>>}
  ELSE {Append(s, x) : s \in SeqsOf(S, n - 1), x \in S}

Batches == UNION {SeqsOf(Intersections, n) : n \in 1..MaxBatch}

\* Screen::new
ScreenInit ==
  /\ samp_buf = [p \in Pixels |-> One]
  /\ image = [p \in Pixels |-> ColorToBytes(BLACK)]
  /\ rays_hit = 0
  /\ last_rays = <<>>
  /\ blended = [p \in Pixels |-> <<>>]
  /\ n_rays = 0

\* the screen after the loop of blend_rays
Becomes(S) ==
  /\ samp_buf' = S.samp
  /\ image' = S.image
  /\ rays_hit' = S.hits
  /\ blended' = S.blended

\* Screen::blend_rays
blend_rays(rays) ==
  /\ n_rays + Len(rays) <= MaxRays
  /\ Becomes(BlendFrom([samp |-> samp_buf, image |-> image, hits |-> 0,
                        blended |-> blended], rays, 1))
  /\ last_rays' = rays
  /\ n_rays' = n_rays + Len(rays)
  /\ UNCHANGED <<ray_vars, frame_vars>>

ScreenNext == \E rays \in Batches : blend_rays(rays)

(***************************************************************************)
(* nalgebra Vector3<f32>, as world.rs uses it                              *)
(***************************************************************************)
VAdd(a, b) == <<FAdd(a[1], b[1]), FAdd(a[2], b[2]), FAdd(a[3], b[3])>>

VSub(a, b) == <<FSub(a[1], b[1]), FSub(a[2], b[2]), FSub(a[3], b[3])>>

VScale(a, s) == <<FMul(a[1], s), FMul(a[2], s), FMul(a[3], s)>>

VUnscale(a, s) == <<FDiv(a[1], s), FDiv(a[2], s), FDiv(a[3], s)>>

Dot(a, b) == FAdd(FAdd(FMul(a[1], b[1]), FMul(a[2], b[2])), FMul(a[3], b[3]))

Norm(a) == FSqrt(Dot(a, a))

Normalize(a) == VUnscale(a, Norm(a))

Cross(a, b) ==
  <<FSub(FMul(a[2], b[3]), FMul(a[3], b[2])),
    FSub(FMul(a[3], b[1]), FMul(a[1], b[3])),
    FSub(FMul(a[1], b[2]), FMul(a[2], b[1]))>>

metric_distance(a, b) == Norm(VSub(a, b))

(***************************************************************************)
(* world.rs: Camera                                                        *)
(***************************************************************************)
camera_pos == <<FZero, Dec(3, 2), Dec(5, 2)>>

camera_dir == Normalize(<<FZero, FNeg(Dec(3, 2)), FNeg(Dec(5, 2))>>)

\* screen_width / screen_height
aspect == FDiv(FromInt(Width), FromInt(Height))

aperture == Dec(2, 100)

focal_length == One

\* UnitQuaternion::rotation_between(&dir, &Vector3::z()): the axis
\* normalize(dir x z) scaled by sin(angle / 2), and cos(angle / 2), for
\* angle = acos(dir . z); the values libm gives for the camera of World::new
rot_vector == <<<<-16168454, -24>>, FZero, FZero>>

rot_scalar == <<8956805, -25>>

\* t * self.scalar() + self.vector().cross(&t) + v
Rotated(v, t) == VAdd(VAdd(VScale(t, rot_scalar), Cross(rot_vector, t)), v)

\* self.rot * v, with t = self.vector().cross(v) * 2
Rotate(v) == Rotated(v, VScale(Cross(rot_vector, v), FromInt(2)))

EPSILON == Dec(8, 100)

V_EPSILON == Dec(1, 10000)

sensor_width == FromInt(5)

sensor_height == FDiv(sensor_width, aspect)

NoCollision == [some |-> FALSE, pos |-> <<FZero, FZero>>]

\* m + d / -dz * self.focal_length * 2.0
Lens(m, d, dz) == FAdd(m, FMul(FMul(FDiv(d, FNeg(dz)), focal_length), FromInt(2)))

\* Camera::collision from the check of the sensor's bounds on
OnSensor(x, y) ==
  IF \/ FGt(FAbs(x), FDiv(sensor_width, FromInt(2)))
     \/ FGt(FAbs(y), FDiv(sensor_height, FromInt(2)))
  THEN NoCollision
  ELSE [some |-> TRUE,
        pos  |-> <<FAdd(FDiv(FNeg(x), sensor_width), Dec(1, 2)),
                   FAdd(FDiv(FNeg(y), sensor_height), Dec(1, 2))>>]

\* Camera::collision for the mapped position and direction
Collide(mapped, mapped_dir) ==
  IF FGt(FAbs(mapped[3]), EPSILON) THEN NoCollision
  ELSE IF FGt(FAdd(FMul(mapped[1], mapped[1]), FMul(mapped[2], mapped[2])),
              FMul(aperture, aperture)) THEN NoCollision
  ELSE IF FGt(mapped_dir[3], FNeg(V_EPSILON)) THEN NoCollision
  ELSE OnSensor(Lens(mapped[1], mapped_dir[1], mapped_dir[3]),
                Lens(mapped[2], mapped_dir[2], mapped_dir[3]))

\* Camera::collision
collision(photon) == Collide(Rotate(VSub(photon.pos, camera_pos)), Rotate(photon.dir))

(***************************************************************************)
(* world.rs: World                                                         *)
(***************************************************************************)
black_hole_pos == <<FZero, FZero, FZero>>

\* 2.0e26
black_hole_mass == <<10842022, 64>>

c == FromInt(300000000)

c_squared == FMul(c, c)

\* 6.67e-11
g == <<9612483, -57>>

schwarzschild_radius == FDiv(FMul(FMul(FromInt(2), g), black_hole_mass), FMul(c, c))

ITERATIONS == 600

time_scale == Dec(15, 1000)

\* for i in 0..ITERATIONS, with a range that runs one index further
LoopEndsLate(i) == i + 1 >= ITERATIONS + 1

\* for i in 0..ITERATIONS: no iteration follows iteration i
LoopEnds(i) == i + 1 >= ITERATIONS

\* deflected_at of a step that applied no deflection
NotDeflected == <<>>

\* the loop of raymarch at index i with the photon p, before its first
\* statement; deflected_at is the bh_dist the step that led here deflected
\* the photon at
Running(p, i) ==
  [state |-> "loop", photon |-> p, i |-> i, intersection |-> 0,
   pos |-> <<FZero, FZero>>, left_by |-> "none", deflected_at |-> NotDeflected]

\* the Intersection raymarch returns, and the statement it left the loop by
Returned(p, i, flag, pos, why) ==
  [state |-> "returned", photon |-> p, i |-> i, intersection |-> flag,
   pos |-> pos, left_by |-> why, deflected_at |-> NotDeflected]

\* photon.pos += photon.dir * time_scale
Advance(photon) ==
  [photon EXCEPT !.pos = VAdd(photon.pos, VScale(photon.dir, time_scale))]

\* the deflection: bh_dir, bh_dist2, a, photon.dir += .., normalize_mut
Deflect(photon, bh_dist) ==
  [photon EXCEPT !.dir =
     Normalize(VAdd(photon.dir,
       VScale(VUnscale(VScale(Normalize(VSub(black_hole_pos, photon.pos)),
                              FDiv(FMul(g, black_hole_mass), FMul(bh_dist, bh_dist))),
                       c_squared),
              time_scale)))]

\* the end of iteration i: the next iteration, or the return after the loop
EndOfIteration(photon, i) ==
  IF LoopEnds(i) THEN Returned(photon, i + 1, 0, <<FZero, FZero>>, "budget")
  ELSE Running(photon, i + 1)

\* bh_dist < scharzschild_r against half the radius (the factor 2.0 of
\* schwarzschild_radius left out)
CapturedInsideHalf(bh_dist) == FLt(bh_dist, FDiv(schwarzschild_radius, FromInt(2)))

\* bh_dist < scharzschild_r
Captured(bh_dist) == FLt(bh_dist, schwarzschild_radius)

\* iteration i from `let bh_dist = ..` on
Horizon(photon, i, bh_dist) ==
  IF Captured(bh_dist)
  THEN Returned(photon, i, 0, <<FZero, FZero>>, "horizon")
  ELSE [EndOfIteration(Deflect(photon, bh_dist), i) EXCEPT !.deflected_at = bh_dist]

\* iteration i from the distance check on, photon being the advanced photon
AfterAdvance(photon, i, distance_check) ==
  IF distance_check
     /\ FGt(metric_distance(photon.pos, camera_pos),
            FMul(FromInt(ITERATIONS - i), time_scale))
  THEN Returned(photon, i, 0, <<FZero, FZero>>, "distance")
  ELSE Horizon(photon, i, metric_distance(photon.pos, black_hole_pos))

\* iteration i, col being self.camera.collision(&photon)
AfterCollision(photon, i, col, distance_check) ==
  IF col.some THEN Returned(photon, i, 1, col.pos, "collision")
  ELSE AfterAdvance(Advance(photon), i, distance_check)

\* one iteration of the loop of raymarch; distance_check is FALSE for the
\* loop without `if photon.pos.metric_distance(&self.camera.pos) > ...`
Iteration(r, distance_check) ==
  AfterCollision(r.photon, r.i, collision(r.photon), distance_check)

Photon(pos, dir) == [pos |-> pos, dir |-> dir, wavelength |-> FromInt(580)]

Q20(n) == FDiv(FromInt(n), FromInt(1048576))

\* the photons of the model: one flying into the lens from in front of it,
\* two starting inside the Schwarzschild radius, one falling into the hole,
\* one flying away behind the camera, one on a bent path that reaches the
\* lens late, and one whose first step ends on the black hole itself
Photons ==
  {Photon(VAdd(camera_pos, VScale(camera_dir, One)), VScale(camera_dir, FromInt(-1))),
   Photon(<<FZero, Dec(29, 100), FZero>>, <<FZero, One, FZero>>),
   Photon(<<FZero, Dec(1, 10), FZero>>, <<FZero, One, FZero>>),
   Photon(<<FZero, One, FZero>>, <<FZero, FromInt(-1), FZero>>),
   Photon(VSub(camera_pos, VScale(camera_dir, Dec(89925, 10000))), camera_dir),
   Photon(<<FZero, Q20(-5152673), Q20(-3276838)>>,
          Normalize(<<FZero, Q20(939865), Q20(464936)>>)),
   Photon(<<FZero, FNeg(time_scale), FZero>>, <<FZero, One, FZero>>)}

Idle == [state |-> "idle"]

\* a call of World::raymarch
RayInit ==
  /\ photon0 \in Photons
  /\ ray = Running(photon0, 0)
  /\ unchecked = Idle

\* one iteration of the loop, or the return after it
RayStep ==
  /\ ray.state = "loop"
  /\ ray' = Iteration(ray, TRUE)
  /\ unchecked' = IF ray'.left_by = "distance" THEN ray ELSE unchecked
  /\ UNCHANGED <<photon0, screen_vars, frame_vars>>

\* one iteration of the loop without the distance check
UncheckedStep ==
  /\ unchecked.state = "loop"
  /\ unchecked' = Iteration(unchecked, FALSE)
  /\ UNCHANGED <<photon0, ray, screen_vars, frame_vars>>

RayNext == RayStep \/ UncheckedStep

(***************************************************************************)
(* main.rs: the frame loop of main                                         *)
(***************************************************************************)
\* screen_width() as usize and screen_height() as usize
w == TilesX * CHUNK_SIZE

h == TilesY * CHUNK_SIZE

Cells == (0..(w - 1)) \X (0..(h - 1))

\* ndarray exact_chunks_mut((CHUNK_SIZE, CHUNK_SIZE)) of an array of shape
\* (w, h): the chunks, in the order the iterator yields them
n_chunks == (w \div CHUNK_SIZE) * (h \div CHUNK_SIZE)

Tasks == 0..(n_chunks - 1)

\* the array index that index <<v0, v1>> of every chunk view stands for, when
\* the views are not offset into the array
ChunkCellShared(i, v0, v1) == <<v0, v1>>

\* the array index that index <<v0, v1>> of the view of chunk i stands for
ChunkCell(i, v0, v1) ==
  <<(i \div (h \div CHUNK_SIZE)) * CHUNK_SIZE + v0,
    (i % (h \div CHUNK_SIZE)) * CHUNK_SIZE + v1>>

\* get_mut on a chunk view: None outside the view
InView(v0, v1) == v0 < CHUNK_SIZE /\ v1 < CHUNK_SIZE

chunks_x == w \div CHUNK_SIZE

chunk_x_off(i) == (i % chunks_x) * CHUNK_SIZE

\* i % chunks_x * CHUNK_SIZE, the column offset taken for the row offset
chunk_y_off_of_column(i) == (i % chunks_x) * CHUNK_SIZE

chunk_y_off(i) == (i \div chunks_x) * CHUNK_SIZE

\* rng.f32(): values of [0, 1)
Fractions == <<FZero, Dec(1, 4), Dec(1, 2), Dec(3, 4), <<16777215, -24>>>>

\* what emit_ray returns: Vector4::new(0.0, 0.0, 0.0, 1.0) for a ray that
\* misses the geometry, and a colour of a ray that hits it
Emitted == <<<<FZero, FZero, FZero, One>>, <<One, Dec(1, 4), Dec(1, 2), One>>>>

\* the k-th draw (cx, cy) and emitted colour of the task of chunk i, whose
\* generator was created in state sd
Draw(sd, i, k) ==
  [cx   |-> Fractions[((sd + i * 2 + k * sd * 2) % 5) + 1],
   cy   |-> Fractions[((sd * 3 + i + k) % 5) + 1],
   emit |-> Emitted[((sd + i + k) % 2) + 1]]

\* cx * (CHUNK_SIZE as f32 - 0.0002) - 0.4999
Jitter(cx) ==
  FSub(FMul(cx, FSub(FromInt(CHUNK_SIZE), Dec(2, 10000))), Dec(4999, 10000))

\* ccx.round() as usize
RoundToUsize(a) == ToUsize(FRoundInt(a))

\* mix * emit_ray(..) + (1.0 - mix) * *col
Mix4(col, emit, mix) ==
  [k \in 1..4 |-> FAdd(FMul(mix, emit[k]), FMul(FSub(One, mix), col[k]))]

\* the blend of one sample into the array index cell
SampleInto(B, i, d, cell) ==
  [color    |-> [B.color EXCEPT ![cell] = Mix4(@, d.emit, FDiv(One, B.samp[cell]))],
   samp     |-> [B.samp EXCEPT ![cell] = FAdd(@, One)],
   touched  |-> [B.touched EXCEPT ![cell] = @ \cup {i}],
   panicked |-> B.panicked]

\* one sample from the two get_mut(..).unwrap() on
SampleAt(B, i, d, ix, iy) ==
  IF ~InView(iy, ix) THEN [B EXCEPT !.panicked = TRUE]
  ELSE SampleInto(B, i, d, ChunkCell(i, iy, ix))

\* one sample of the task of chunk i: B is [color, samp, touched, panicked]
Sample(B, i, d) ==
  SampleAt(B, i, d, RoundToUsize(Jitter(d.cx)), RoundToUsize(Jitter(d.cy)))

\* after `let texture = ...`, at the top of the first frame
FrameInit ==
  /\ phase = "fill_color"
  /\ seed \in 0..(Seeds - 1)
  /\ color_buf = [x \in Cells |-> <<FZero, FZero, FZero, FZero>>]
  /\ frame_samp = [x \in Cells |-> FZero]
  /\ frame_image = [x \in Cells |-> <<255, 255, 255, 255>>]
  /\ finished = {}
  /\ sampled = [i \in Tasks |-> 0]
  /\ copy_at = <<0, 0>>
  /\ touched = [x \in Cells |-> {}]
  /\ targets = {}
  /\ n_written = 0
  /\ panicked = FALSE

ViewCells(i) ==
  {ChunkCell(i, v0, v1) : v0 \in 0..(CHUNK_SIZE - 1), v1 \in 0..(CHUNK_SIZE - 1)}

Touch(i) == [x \in Cells |-> IF x \in ViewCells(i) THEN touched[x] \cup {i} ELSE touched[x]]

\* chunks.par_iter_mut().for_each(|x| x.fill(Vector4::zeros())), task i
FillColor(i) ==
  /\ phase = "fill_color" /\ ~panicked /\ i \notin finished
  /\ color_buf' = [x \in Cells |->
       IF x \in ViewCells(i) THEN <<FZero, FZero, FZero, FZero>> ELSE color_buf[x]]
  /\ touched' = Touch(i)
  /\ IF finished \cup {i} = Tasks
     THEN phase' = "fill_samples" /\ finished' = {}
     ELSE phase' = phase /\ finished' = finished \cup {i}
  /\ UNCHANGED <<seed, frame_samp, frame_image, sampled, copy_at, targets, n_written, panicked>>
  /\ UNCHANGED <<screen_vars, ray_vars>>

\* samples.par_iter_mut().for_each(|x| x.fill(1.0)), task i
FillSamples(i) ==
  /\ phase = "fill_samples" /\ ~panicked /\ i \notin finished
  /\ frame_samp' = [x \in Cells |-> IF x \in ViewCells(i) THEN One ELSE frame_samp[x]]
  /\ touched' = Touch(i)
  /\ IF finished \cup {i} = Tasks
     THEN phase' = "sample" /\ finished' = {}
     ELSE phase' = phase /\ finished' = finished \cup {i}
  /\ UNCHANGED <<seed, color_buf, frame_image, sampled, copy_at, targets, n_written, panicked>>
  /\ UNCHANGED <<screen_vars, ray_vars>>

\* the buffers after one sample
Sampled(B) ==
  /\ color_buf' = B.color
  /\ frame_samp' = B.samp
  /\ touched' = B.touched
  /\ panicked' = B.panicked

\* one turn of xs.zip(ys).for_each(..) in the task of chunk i
SampleStep(i) ==
  /\ phase = "sample" /\ ~panicked /\ sampled[i] < N_SAMPLES
  /\ Sampled(Sample([color |-> color_buf, samp |-> frame_samp,
                      touched |-> touched, panicked |-> FALSE],
                     i, Draw(seed, i, sampled[i])))
  /\ sampled' = [sampled EXCEPT ![i] = @ + 1]
  /\ phase' = IF \A j \in Tasks : sampled'[j] = N_SAMPLES THEN "copy" ELSE phase
  /\ UNCHANGED <<seed, frame_image, finished, copy_at, targets, n_written>>
  /\ UNCHANGED <<screen_vars, ray_vars>>

\* one turn of the inner loop of chunks.iter().enumerate().for_each(..)
CopyStep ==
  /\ phase = "copy" /\ ~panicked
  /\ LET i    == copy_at[1]
         j    == copy_at[2]
         px   == <<chunk_x_off(i) + (j % CHUNK_SIZE), chunk_y_off(i) + (j \div CHUNK_SIZE)>>
         col  == color_buf[ChunkCell(i, j \div CHUNK_SIZE, j % CHUNK_SIZE)]
         last == j + 1 = CHUNK_SIZE * CHUNK_SIZE
     IN  /\ IF px \in Cells
            THEN frame_image' = [frame_image EXCEPT ![px] = ColorToBytes(col)]
                 /\ panicked' = FALSE
            ELSE frame_image' = frame_image /\ panicked' = TRUE
         /\ targets' = targets \cup {px}
         /\ n_written' = n_written + 1
         /\ copy_at' = IF last THEN <<i + 1, 0>> ELSE <<i, j + 1>>
         /\ phase' = IF last /\ i + 1 = n_chunks THEN "present" ELSE phase
  /\ UNCHANGED <<seed, color_buf, frame_samp, finished, sampled, touched>>
  /\ UNCHANGED <<screen_vars, ray_vars>>

\* texture.update, draw_texture, next_frame().await, and the top of the loop
NextFrame ==
  /\ phase = "present"
  /\ phase' = "fill_color"
  /\ seed' \in 0..(Seeds - 1)
  /\ sampled' = [i \in Tasks |-> 0]
  /\ copy_at' = <<0, 0>>
  /\ touched' = [x \in Cells |-> {}]
  /\ targets' = {}
  /\ n_written' = 0
  /\ UNCHANGED <<color_buf, frame_samp, frame_image, finished, panicked>>
  /\ UNCHANGED <<screen_vars, ray_vars>>

FrameNext ==
  \/ \E i \in Tasks : FillColor(i)
  \/ \E i \in Tasks : FillSamples(i)
  \/ \E i \in Tasks : SampleStep(i)
  \/ CopyStep
  \/ NextFrame

FrameIdle ==
  /\ phase = "idle"
  /\ seed = 0
  /\ color_buf = <<>>
  /\ frame_samp = <<>>
  /\ frame_image = <<>>
  /\ finished = {}
  /\ sampled = <<>>
  /\ copy_at = <<0, 0>>
  /\ touched = <<>>
  /\ targets = {}
  /\ n_written = 0
  /\ panicked = FALSE

ScreenIdle ==
  /\ samp_buf = <<>>
  /\ image = <<>>
  /\ rays_hit = 0
  /\ last_rays = <<>>
  /\ blended = <<>>
  /\ n_rays = 0

RayIdle ==
  /\ photon0 = Idle
  /\ ray = Idle
  /\ unchecked = Idle

(***************************************************************************)
(* Specifications                                                          *)
(***************************************************************************)
\* a Screen alone
ScreenStart == ScreenInit /\ RayIdle /\ FrameIdle

ScreenSpec == ScreenStart /\ [][ScreenNext]_vars

\* one call of World::raymarch alone
RayStart == RayInit /\ ScreenIdle /\ FrameIdle

RaySpec == RayStart /\ [][RayNext]_vars

\* main of main.rs alone
FrameStart == FrameInit /\ ScreenIdle /\ RayIdle

FrameSpec == FrameStart /\ [][FrameNext]_vars

(***************************************************************************)
(* Claims about Screen                                                     *)
(***************************************************************************)
\* the colour of a wavelength as set_pixel stores it, each channel scaled by
\* the f32 factor
StoredColor(wavelength, factor) ==
  LET rgb == wavelength_to_rgb(wavelength)
  IN  ColorToBytes(<<FMul(factor, rgb[1]), FMul(factor, rgb[2]), FMul(factor, rgb[3]), One>>)

\* C3 as stated: on a fresh pixel, blending exactly one hit of colour C
\* leaves the pixel's colour equal to 0.5*C.
C3_HalfColour ==
  \A p \in Pixels :
    Len(blended[p]) = 1 => image[p] = StoredColor(blended[p][1], Dec(1, 2))

\* C3 as amended: on a fresh pixel (sample_count 1, colour 0), blending
\* exactly one hit of colour C leaves the pixel's colour equal to C itself,
\* as the 8-bit image stores it, and the sample count equal to 2.
C3_FirstHitColour ==
  \A p \in Pixels :
    Len(blended[p]) = 1 =>
      /\ image[p] = StoredColor(blended[p][1], One)
      /\ samp_buf[p] = FromInt(2)

C3_Witness ==
  \E p \in Pixels :
    /\ Len(blended[p]) = 1
    /\ image[p] # ColorToBytes(BLACK)

\* a colour channel in [0, 1] in units of 2^-20, rounded down
Units(v) == IF v[1] = 0 THEN 0 ELSE v[1] \div Pow2(-v[2] - 20)

RECURSIVE SumUnits(_, _, _)
SumUnits(ws, ch, k) ==
  IF k > Len(ws) THEN 0
  ELSE Units(wavelength_to_rgb(ws[k])[ch]) + SumUnits(ws, ch, k + 1)

\* byte/255 is the mean of channel ch of the colours of ws, to within one
\* step of an 8-bit channel (1/255) and 1e-5 (and the rounding of Units)
IsMean(byte, ws, ch) ==
  LET k == Len(ws)
      d == byte * k * Pow2(20) - 255 * SumUnits(ws, ch, 1)
  IN  Abs(d) <= k * Pow2(20) + (255 * k * Pow2(20)) \div 100000 + 255 * k

\* C4: after any sequence of k >= 1 accepted hits on one pixel, the pixel's
\* colour equals the arithmetic mean, per channel, of the colours of the k
\* samples blended into it (stated here up to the resolution of the image:
\* the stored channel is within 1/255 of the mean).
C4_ColourIsMean ==
  \A p \in Pixels :
    Len(blended[p]) >= 1 => \A ch \in 1..3 : IsMean(image[p][ch], blended[p], ch)

RECURSIVE BlendSeq(_, _, _)
\* a pixel <<bytes, mix_fac>> after the hits ws[k..] are blended into it
BlendSeq(px, ws, k) ==
  IF k > Len(ws) THEN px
  ELSE BlendSeq(BlendPixel(px[1], px[2], ws[k]), ws, k + 1)

FreshPixel == <<ColorToBytes(BLACK), One>>

Orderings(ws) ==
  {[k \in 1..Len(ws) |-> ws[f[k]]] :
     f \in {pm \in [1..Len(ws) -> 1..Len(ws)] : \A i, j \in 1..Len(ws) : pm[i] = pm[j] => i = j}}

\* C5: for one pixel, blending the same multiset of hits in any two orders
\* yields the same final colour and the same final sample_count.
C5_OrderIndependent ==
  \A p \in Pixels :
    \A ws \in Orderings(blended[p]) :
      BlendSeq(FreshPixel, ws, 1) = <<image[p], samp_buf[p]>>

\* the pixel blend_rays blends a hit into, <<-1, -1>> where it discards it
Target(ins) ==
  LET x == PixelIndex(ins.pos[1], Width)
      y == PixelIndex(ins.pos[2], Height)
  IN  IF IsHit(ins) /\ InBounds(x, y) THEN <<x, y>> ELSE <<-1, -1>>

\* a blend_rays call adds to each pixel's sample_count the number of hits of
\* the call that it accepts on that pixel
CountsAccepted ==
  LET tg == [k \in 1..Len(last_rays') |-> Target(last_rays'[k])]
  IN  \A p \in Pixels :
        FRoundInt(samp_buf'[p]) =
          FRoundInt(samp_buf[p]) + Cardinality({k \in DOMAIN tg : tg[k] = p})

\* C6: every pixel's sample_count is >= 1 in every reachable state; a
\* blend_rays call adds to a pixel's sample_count exactly the number of hits
\* accepted on that pixel, so the count never decreases and is unchanged by
\* misses and by hits on other pixels.
C6_SampleCount ==
  /\ [](\A p \in Pixels : FRoundInt(samp_buf[p]) >= 1)
  /\ [][CountsAccepted]_screen_vars

C6_Witness ==
  /\ \E p \in Pixels : samp_buf[p] = FromInt(3)
  /\ \E p \in Pixels : samp_buf[p] = One /\ blended[p] = <<>>
  /\ \E k \in 1..Len(last_rays) : ~IsHit(last_rays[k])

\* the index the claim speaks of: the sensor coordinate scaled by size - 1
\* and rounded to the nearest integer
RoundedIndex(pos, size) == FRoundInt(FMul(pos, FromInt(size - 1)))

OutsideGrid(ins) ==
  \/ RoundedIndex(ins.pos[1], Width) < 0
  \/ RoundedIndex(ins.pos[1], Width) >= Width
  \/ RoundedIndex(ins.pos[2], Height) < 0
  \/ RoundedIndex(ins.pos[2], Height) >= Height

\* C7: a hit whose rounded index lies outside the grid in either axis (below
\* 0, or at or above width or height) is discarded: a call made of such hits
\* changes no pixel's colour, no sample_count, and counts no hit as blended.
C7_OutsideDiscarded ==
  [][(\A k \in 1..Len(last_rays') : IsHit(last_rays'[k]) /\ OutsideGrid(last_rays'[k]))
       => (image' = image /\ samp_buf' = samp_buf /\ rays_hit' = 0)]_screen_vars

(***************************************************************************)
(* Claims about World::raymarch                                            *)
(***************************************************************************)
\* the loop iterations a trace has entered
IterationsRun(r) ==
  IF r.state = "returned" /\ r.left_by # "budget" THEN r.i + 1 ELSE r.i

\* what raymarch returns is a Hit or a Miss, and a Hit only by a collision
HitOrMiss(r) ==
  /\ r.left_by \in {"collision", "distance", "horizon", "budget"}
  /\ r.intersection = IF r.left_by = "collision" THEN 1 ELSE 0
  /\ r.left_by = "budget" <=> r.i = ITERATIONS

\* an iteration either returns or hands the next index to the next iteration
Progress ==
  ray.state = "loop" =>
    \/ ray'.state = "returned"
    \/ ray'.state = "loop" /\ ray'.i = ray.i + 1

\* C1: for every initial photon, raymarch runs at most ITERATIONS = 600 loop
\* iterations and then returns exactly one Intersection, a Hit (flag 1) or a
\* Miss (flag 0) by the distance check, the horizon or the exhausted budget;
\* no trace runs on: the loop index grows with every iteration that does not
\* return and stays below ITERATIONS.
C1_Terminates ==
  /\ [](/\ ray.state \in {"loop", "returned"}
        /\ IterationsRun(ray) <= ITERATIONS
        /\ ray.state = "loop" => ray.i < ITERATIONS
        /\ ray.state = "returned" => HitOrMiss(ray))
  /\ [][Progress]_ray

C1_Witness ==
  /\ ray.state = "returned"
  /\ ray.left_by = "budget"
  /\ IterationsRun(ray) = ITERATIONS

StartsInside ==
  FLt(metric_distance(photon0.pos, black_hole_pos), schwarzschild_radius)

\* C2: a photon that starts closer to the black hole than the Schwarzschild
\* radius is returned as a Miss by the horizon check in loop iteration 0; its
\* trace never reaches a second iteration.
C2_CapturedInFirstStep ==
  StartsInside =>
    /\ ray.i = 0
    /\ ray.state = "returned" => (ray.intersection = 0 /\ ray.left_by = "horizon")

\* C10: a photon that raymarch returns as a Miss by the distance check is a
\* Miss of the same loop without the check as well: the check never turns a
\* Hit into a Miss.
C10_DistanceCheckKeepsHits ==
  (ray.state = "returned" /\ ray.left_by = "distance" /\ unchecked.state = "returned")
    => unchecked.intersection = 0

\* the step that led to r applied the deflection
Deflected(r) == r.deflected_at # NotDeflected

\* the photon of r is where the black hole is, after at least one advance
OnBlackHole(r) ==
  /\ r.photon.pos = black_hole_pos
  /\ r # Running(photon0, 0)

\* C11: in every raymarch step that applies the gravitational deflection,
\* the photon's distance to the black hole is at least the Schwarzschild
\* radius and therefore strictly positive, so the normalisation of the
\* direction to the mass and the division by the squared distance are never
\* evaluated at distance 0; a photon that an advance puts at distance 0 is
\* returned as a Miss without being deflected.
C11_DeflectsOutsideHorizon ==
  /\ Deflected(ray) =>
       /\ ~FLt(ray.deflected_at, schwarzschild_radius)
       /\ FGt(ray.deflected_at, FZero)
       /\ ray.deflected_at = metric_distance(ray.photon.pos, black_hole_pos)
  /\ OnBlackHole(ray) =>
       /\ ~Deflected(ray)
       /\ ray.state = "returned" /\ ray.intersection = 0

\* a deflection less than one step outside the Schwarzschild radius
C11_Witness ==
  /\ Deflected(ray)
  /\ FLt(ray.deflected_at, FAdd(schwarzschild_radius, time_scale))

(***************************************************************************)
(* Claims about the tiles of main.rs                                       *)
(***************************************************************************)
\* C8: with CHUNK_SIZE dividing w and h, the chunks of exact_chunks_mut and
\* the offsets of the copy loop (chunk i at (i % chunks_x * CHUNK_SIZE,
\* i / chunks_x * CHUNK_SIZE), element j at (j % CHUNK_SIZE, j / CHUNK_SIZE))
\* cover the w x h image exactly once: every set_pixel of a frame is for a
\* pixel of the image, no pixel is set twice, and when the loop ends every
\* pixel has been set.
C8_TilesCoverOnce ==
  /\ n_chunks * CHUNK_SIZE * CHUNK_SIZE = w * h
  /\ targets \subseteq Cells
  /\ Cardinality(targets) = n_written
  /\ phase = "present" => targets = Cells

C8_Witness ==
  /\ phase = "present"
  /\ n_written = w * h
  /\ n_chunks > 1

RECURSIVE TaskSamples(_, _, _, _)
\* the samples k.. of the task of chunk i, taken one after the other
TaskSamples(B, i, k, sd) ==
  IF k >= N_SAMPLES THEN B
  ELSE TaskSamples(Sample(B, i, Draw(sd, i, k)), i, k + 1, sd)

RECURSIVE TasksInTurn(_, _, _)
\* the tasks i.. run one after the other
TasksInTurn(B, i, sd) ==
  IF i >= n_chunks THEN B
  ELSE TasksInTurn(TaskSamples(B, i, 0, sd), i + 1, sd)

\* the buffers after a pass that runs the tasks one after the other
SequentialPass(sd) ==
  TasksInTurn([color    |-> [x \in Cells |-> <<FZero, FZero, FZero, FZero>>],
               samp     |-> [x \in Cells |-> One],
               touched  |-> [x \in Cells |-> {}],
               panicked |-> FALSE], 0, sd)

SameAsInTurn(B) == color_buf = B.color /\ frame_samp = B.samp

\* C9: under every interleaving of the parallel tile tasks of a pass, every
\* cell of the colour and sample buffers is accessed by at most one task, no
\* task indexes outside its own CHUNK_SIZE x CHUNK_SIZE view, and the buffers
\* the pass leaves are those of the tasks run one after the other.
C9_TasksDisjoint ==
  /\ \A x \in Cells : Cardinality(touched[x]) <= 1
  /\ ~panicked
  /\ (phase = "copy" /\ n_written = 0) => SameAsInTurn(SequentialPass(seed))

C9_Witness ==
  /\ phase = "copy"
  /\ n_written = 0
  /\ \A i \in Tasks : \E x \in Cells : touched[x] = {i} /\ frame_samp[x] # One
  /\ \E x \in Cells : frame_samp[x] = FromInt(3)
  /\ n_chunks > 1

====
